---- MODULE Spec2Model ----
(***************************************************************************)
(* GPCS4 GPU queue virtualisation and submission pipeline.                 *)
(*                                                                         *)
(*   SceGnmDriver  (Graphics/Sce/SceGnmDriver.cpp): driver bring-up, the  *)
(*                 single graphics queue, the array of virtual compute    *)
(*                 queues, submit / submitDone.                           *)
(*   VltResource   (Graphics/Violet/VltResource.h): the read / write use  *)
(*                 counters of a GPU resource.                            *)
(*                                                                         *)
(* Number representation.  TLC integers are 32-bit signed.  A C++ `int`   *)
(* is written as it is.  A uint32_t whose value can leave 0 .. 2^31-1 is  *)
(* written as the int32 with the same bit pattern, so 0xFFFFFFFF is -1    *)
(* and 0x80D17000 is -2133757952; `!= 0`, `==`, +1 and -1 act on the bit  *)
(* pattern and are the same in both views.                                *)
(***************************************************************************)
EXTENDS Integers, Sequences, FiniteSets

VARIABLES
    phase,            \* "running" | "fatal" (LOG_ASSERT fired) | "crashed" (undefined behaviour took the process down)
                      \* | "constructing", "initGnmDriver_50" (inside the constructor) | "destroyed"
    m_device,         \* SceGnmDriver::m_device != nullptr
    m_graphicsQueue,  \* SceGnmDriver::m_graphicsQueue != nullptr
    m_presenter,      \* SceGnmDriver::m_presenter != nullptr
    m_computeQueues,  \* SceGnmDriver::m_computeQueues: slot index -> Null or the queue object
    mem,              \* guest memory: the 32-bit words a readPtrAddr can name
    trace,            \* what the backend (graphics queue, presenter) was asked to do, in order
    pumped,           \* number of glfwPollEvents() calls made
    last,             \* the most recent driver call: its name, arguments, whether it returned, the value and the
                      \* m_computeQueues element it accessed (touched, index)
    history,          \* what mapComputeQueue has returned so far: ids, the set of <<pipeId, queueId, id>>
                      \* of its successful calls; remap, whether the latest call mapped a pair again
                      \* right after its id was unmapped; graphicsQueues, the number of graphics
                      \* SceGpuQueue objects constructed so far
    m_useCountR,      \* VltResource::m_useCountR
    m_useCountW,      \* VltResource::m_useCountW
    pc,               \* per thread: position inside a VltResource call
    local,            \* per thread: the arguments and locals of the call in progress
    ret,              \* per thread: what its last isInUse call returned, until its next one starts
    held,             \* per thread: the acquires it has made and not yet released
    busy,             \* per thread, for its isInUse call under way: a counter was not 0 in every state since the call's first load (kept in SpecRace)
    m_names,          \* VltNameSet::m_names of the set asked: extension name -> revision, 0 for a name not in it
    ppExtensions,     \* the VltExt objects handed to enableExtensions: name, m_mode, m_revision
    nameSet,          \* the names in the VltNameSet enableExtensions fills
    enabledAll        \* the latest call on the extension objects: whether it was enableExtensions, and the value that returned

driverVars   == <<phase, m_device, m_graphicsQueue, m_presenter, m_computeQueues, mem, trace, pumped, last, history>>
resourceVars == <<m_useCountR, m_useCountW, pc, local, ret, held, busy>>
extensionVars == <<m_names, ppExtensions, nameSet, enabledAll>>
vars         == <<phase, m_device, m_graphicsQueue, m_presenter, m_computeQueues, mem, trace, pumped, last, history,
                  m_useCountR, m_useCountW, pc, local, ret, held, busy,
                  m_names, ppExtensions, nameSet, enabledAll>>

(***************************************************************************)
(* Program constants.  SceGnmDriver.h and sce_errors.h are not among the  *)
(* sources at hand; the values are those of the headers the driver        *)
(* includes.                                                              *)
(***************************************************************************)
VQueueIdBegin == 1
MaxPipeId == 7
MaxQueueId == 8
MaxComputeQueueCount == MaxPipeId * MaxQueueId

SCE_OK == 0
\* 0x8EEE00FF
SCE_GNM_ERROR_UNKNOWN == -1897004801
\* 0x80D17000
SCE_GNM_ERROR_COMPUTEQUEUE_INVALID_PIPE_ID == -2133757952
\* 0x80D17001
SCE_GNM_ERROR_COMPUTEQUEUE_INVALID_QUEUE_ID == -2133757951
\* 0x80D17002
SCE_GNM_ERROR_COMPUTEQUEUE_INVALID_RING_SIZE == -2133757950
\* 0x80D17003
SCE_GNM_ERROR_COMPUTEQUEUE_INVALID_RING_BASE_ADDR == -2133757949
\* 0x80D17004
SCE_GNM_ERROR_COMPUTEQUEUE_INVALID_READ_PTR_ADDR == -2133757948

ErrorCodes ==
    { SCE_GNM_ERROR_UNKNOWN,
      SCE_GNM_ERROR_COMPUTEQUEUE_INVALID_PIPE_ID,
      SCE_GNM_ERROR_COMPUTEQUEUE_INVALID_QUEUE_ID,
      SCE_GNM_ERROR_COMPUTEQUEUE_INVALID_RING_SIZE,
      SCE_GNM_ERROR_COMPUTEQUEUE_INVALID_RING_BASE_ADDR,
      SCE_GNM_ERROR_COMPUTEQUEUE_INVALID_READ_PTR_ADDR }

(***************************************************************************)
(* Bounds of the model and the inputs tried.                               *)
(***************************************************************************)
\* pipe ids 0 .. PipeLow are tried next to the boundary values MaxPipeId - 1, MaxPipeId
PipeLow == 1
\* number of submit calls a behaviour makes
MaxSubmits == 3
\* number of submitDone calls a behaviour makes
MaxPumps == 2
\* number of threads using one VltResource
NumThreads == 2
\* acquires of one access type a thread holds at the same time
MaxHold == 1
\* releases without a matching acquire: how far below 0 a counter is taken
MaxUnpaired == 2
\* number of VltExt objects handed to enableExtensions
MaxExts == 2
\* number of threads that call isInUse while every thread acquires and releases
NumCheckers == 1

PipeIds  == (0 .. PipeLow) \cup {MaxPipeId - 1, MaxPipeId}
QueueIds == {0, MaxQueueId - 1, MaxQueueId}
\* ring base addresses: 256-aligned, and one byte off
RingBaseAddrs == {512, 513}
\* ring sizes in dwords: a power of two and a non-power
RingSizes == {64, 6}
\* read pointer addresses: a 4-aligned word, and one byte off it
ReadPtrAddrs == {4096, 4097}
WordAddrs == {a \in ReadPtrAddrs : a % 4 = 0}
\* what the guest words hold before the driver touches them (0x12345678: not zero)
GuestMemory == [a \in WordAddrs |-> 305419896]

Null == <<>>
SlotIndexes == 0 .. (MaxComputeQueueCount - 1)
Pairs == PipeIds \X QueueIds
ValidPairs == {p \in Pairs : p[1] < MaxPipeId /\ p[2] < MaxQueueId}
\* ids tried by unmapComputeQueue and dingDong: below the range, the ids of the pairs
\* tried, and the values around MaxComputeQueueCount
VQueueIds == {VQueueIdBegin - 1}
             \cup {VQueueIdBegin + p[1] * MaxPipeId + p[2] : p \in ValidPairs}
             \cup {MaxComputeQueueCount - 1, MaxComputeQueueCount, MaxComputeQueueCount + 1}
\* submit arguments tried
Counts  == {0, 1, 2}
Buffers == {"bufA", "bufB"}
Sizes   == {16, 32}
NoCall == [op |-> "none", args |-> <<>>, returned |-> TRUE, ret |-> 0, touched |-> FALSE, index |-> 0]

(***************************************************************************)
(* util::isPowerOfTwo (UtilMath.h, not among the sources): x is 2^k.       *)
(* Ring sizes of 0 are not tried.                                          *)
(***************************************************************************)
isPowerOfTwo(x) == \E k \in 0 .. 30 : x = 2 ^ k

(***************************************************************************)
(* SceGnmDriver::mapComputeQueue                                           *)
(***************************************************************************)
\* the id computed without the VQueueIdBegin offset
VQueueIdOf_NoBase(pipeId, queueId) == pipeId * MaxPipeId + queueId

\* the id computed with a row of MaxQueueId ids per pipe
VQueueIdOf_QueueStride(pipeId, queueId) == VQueueIdBegin + pipeId * MaxQueueId + queueId

\* the id of the first empty slot, whatever the pair
VQueueIdOf_FirstFree(pipeId, queueId) ==
    LET free == {i \in SlotIndexes : m_computeQueues[i] = Null}
    IN  VQueueIdBegin + (CHOOSE i \in free : \A j \in free : i <= j)

\* line 224: the virtual queue id of a (pipeId, queueId) that passed validation
VQueueIdOf(pipeId, queueId) == VQueueIdBegin + pipeId * MaxPipeId + queueId

\* the checks with the queue id looked at before the pipe id
MapValidate_QueueFirst(pipeId, queueId, ringBaseAddr, ringSizeInDW, readPtrAddr) ==
    IF queueId >= MaxQueueId THEN SCE_GNM_ERROR_COMPUTEQUEUE_INVALID_QUEUE_ID
    ELSE IF pipeId >= MaxPipeId THEN SCE_GNM_ERROR_COMPUTEQUEUE_INVALID_PIPE_ID
    ELSE IF ringBaseAddr % 256 # 0 THEN SCE_GNM_ERROR_COMPUTEQUEUE_INVALID_RING_BASE_ADDR
    ELSE IF ~isPowerOfTwo(ringSizeInDW) THEN SCE_GNM_ERROR_COMPUTEQUEUE_INVALID_RING_SIZE
    ELSE IF readPtrAddr % 4 # 0 THEN SCE_GNM_ERROR_COMPUTEQUEUE_INVALID_READ_PTR_ADDR
    ELSE SCE_OK

\* lines 189-220: the error code of the first failing check, or SCE_OK when all pass
MapValidate(pipeId, queueId, ringBaseAddr, ringSizeInDW, readPtrAddr) ==
    IF pipeId >= MaxPipeId THEN SCE_GNM_ERROR_COMPUTEQUEUE_INVALID_PIPE_ID
    ELSE IF queueId >= MaxQueueId THEN SCE_GNM_ERROR_COMPUTEQUEUE_INVALID_QUEUE_ID
    ELSE IF ringBaseAddr % 256 # 0 THEN SCE_GNM_ERROR_COMPUTEQUEUE_INVALID_RING_BASE_ADDR
    ELSE IF ~isPowerOfTwo(ringSizeInDW) THEN SCE_GNM_ERROR_COMPUTEQUEUE_INVALID_RING_SIZE
    ELSE IF readPtrAddr % 4 # 0 THEN SCE_GNM_ERROR_COMPUTEQUEUE_INVALID_READ_PTR_ADDR
    ELSE SCE_OK

\* mapComputeQueue returning the id without creating the queue object
mapComputeQueue_NoQueueCreated(pipeId, queueId, ringBaseAddr, ringSizeInDW, readPtrAddr) ==
    LET err  == MapValidate(pipeId, queueId, ringBaseAddr, ringSizeInDW, readPtrAddr)
        id   == VQueueIdOf(pipeId, queueId)
        args == <<pipeId, queueId, ringBaseAddr, ringSizeInDW, readPtrAddr>>
    IN  /\ phase = "running"
        /\ IF err # SCE_OK
           THEN /\ last' = [op |-> "mapComputeQueue", args |-> args, returned |-> TRUE, ret |-> err, touched |-> FALSE, index |-> 0]
                /\ UNCHANGED mem
           ELSE /\ mem' = [mem EXCEPT ![readPtrAddr] = 0]
                /\ last' = [op |-> "mapComputeQueue", args |-> args, returned |-> TRUE, ret |-> id, touched |-> FALSE, index |-> 0]
        /\ UNCHANGED <<phase, m_device, m_graphicsQueue, m_presenter, m_computeQueues, trace, pumped>>

\* lines 183-238, the whole call
mapComputeQueue(pipeId, queueId, ringBaseAddr, ringSizeInDW, readPtrAddr) ==
    LET err  == MapValidate(pipeId, queueId, ringBaseAddr, ringSizeInDW, readPtrAddr)
        id   == VQueueIdOf(pipeId, queueId)
        args == <<pipeId, queueId, ringBaseAddr, ringSizeInDW, readPtrAddr>>
    IN  /\ phase = "running"
        /\ IF err # SCE_OK
           THEN /\ last' = [op |-> "mapComputeQueue", args |-> args, returned |-> TRUE, ret |-> err, touched |-> FALSE, index |-> 0]
                /\ UNCHANGED <<mem, m_computeQueues>>
           ELSE /\ mem' = [mem EXCEPT ![readPtrAddr] = 0]
                /\ IF id >= MaxComputeQueueCount
                   THEN /\ last' = [op |-> "mapComputeQueue", args |-> args, returned |-> TRUE, ret |-> id, touched |-> FALSE, index |-> 0]
                        /\ UNCHANGED m_computeQueues
                   ELSE /\ m_computeQueues' =
                              [m_computeQueues EXCEPT ![id - VQueueIdBegin] = <<pipeId, queueId>>]
                        /\ last' = [op |-> "mapComputeQueue", args |-> args, returned |-> TRUE, ret |-> id,
                                    touched |-> TRUE, index |-> id - VQueueIdBegin]
        /\ UNCHANGED <<phase, m_device, m_graphicsQueue, m_presenter, trace, pumped>>

(***************************************************************************)
(* SceGnmDriver::unmapComputeQueue                                         *)
(***************************************************************************)
\* line 250: vqueueId - VQueueIdBegin in uint32_t arithmetic.  A vqueueId below
\* VQueueIdBegin wraps; the wrapped value 2^32 + (vqueueId - VQueueIdBegin) is written
\* as the negative int32 of the same bit pattern.
UnmapIndex(vqueueId) == vqueueId - VQueueIdBegin

\* unmapComputeQueue taking an id below VQueueIdBegin for the graphics queue and
\* releasing that
unmapComputeQueue_BelowBeginIsGraphics(vqueueId) ==
    /\ phase = "running"
    /\ IF vqueueId >= MaxComputeQueueCount
       THEN /\ last' = [op |-> "unmapComputeQueue", args |-> <<vqueueId>>, returned |-> TRUE, ret |-> 0, touched |-> FALSE, index |-> 0]
            /\ UNCHANGED <<m_graphicsQueue, m_computeQueues>>
       ELSE IF vqueueId < VQueueIdBegin
       THEN /\ m_graphicsQueue' = FALSE
            /\ last' = [op |-> "unmapComputeQueue", args |-> <<vqueueId>>, returned |-> TRUE, ret |-> 0, touched |-> FALSE, index |-> 0]
            /\ UNCHANGED m_computeQueues
       ELSE /\ m_computeQueues' = [m_computeQueues EXCEPT ![UnmapIndex(vqueueId)] = Null]
            /\ last' = [op |-> "unmapComputeQueue", args |-> <<vqueueId>>, returned |-> TRUE,
                        ret |-> 0, touched |-> TRUE, index |-> UnmapIndex(vqueueId)]
            /\ UNCHANGED m_graphicsQueue
    /\ UNCHANGED <<phase, m_device, m_presenter, mem, trace, pumped>>

\* lines 240-254, the whole call.  The array is std::array<..., MaxComputeQueueCount>;
\* operator[] with an index outside it is undefined behaviour: the process goes on
\* with nothing visible changed, or it dies.
unmapComputeQueue(vqueueId) ==
    /\ phase = "running"
    /\ IF vqueueId >= MaxComputeQueueCount
       THEN /\ last' = [op |-> "unmapComputeQueue", args |-> <<vqueueId>>, returned |-> TRUE, ret |-> 0, touched |-> FALSE, index |-> 0]
            /\ UNCHANGED <<phase, m_computeQueues>>
       ELSE LET vqueueIndex == UnmapIndex(vqueueId) IN
            IF vqueueIndex \in SlotIndexes
            THEN /\ m_computeQueues' = [m_computeQueues EXCEPT ![vqueueIndex] = Null]
                 /\ last' = [op |-> "unmapComputeQueue", args |-> <<vqueueId>>, returned |-> TRUE,
                             ret |-> 0, touched |-> TRUE, index |-> vqueueIndex]
                 /\ UNCHANGED phase
            ELSE /\ phase' \in {"running", "crashed"}
                 /\ last' = [op |-> "unmapComputeQueue", args |-> <<vqueueId>>,
                             returned |-> (phase' = "running"),
                             ret |-> 0, touched |-> TRUE, index |-> vqueueIndex]
                 /\ UNCHANGED m_computeQueues
    /\ UNCHANGED <<m_device, m_graphicsQueue, m_presenter, mem, trace, pumped>>

(***************************************************************************)
(* SceGnmDriver::dingDong: lines 256-260, an empty body                    *)
(***************************************************************************)
\* dingDong handing the doorbell to the backend as a request of its own
dingDong_KicksBackend(vqueueId, nextStartOffsetInDw) ==
    /\ phase = "running"
    /\ trace' = Append(trace, [op |-> "dingDong", vqueueId |-> vqueueId])
    /\ last' = [op |-> "dingDong", args |-> <<vqueueId, nextStartOffsetInDw>>, returned |-> TRUE, ret |-> 0, touched |-> FALSE, index |-> 0]
    /\ UNCHANGED <<phase, m_device, m_graphicsQueue, m_presenter, m_computeQueues, mem, pumped>>

dingDong(vqueueId, nextStartOffsetInDw) ==
    /\ phase = "running"
    /\ last' = [op |-> "dingDong", args |-> <<vqueueId, nextStartOffsetInDw>>, returned |-> TRUE, ret |-> 0, touched |-> FALSE, index |-> 0]
    /\ UNCHANGED <<phase, m_device, m_graphicsQueue, m_presenter, m_computeQueues, mem, trace, pumped>>

(***************************************************************************)
(* SceGnmDriver::destroyGpuQueues: lines 262-273                           *)
(***************************************************************************)
\* destroyGpuQueues releasing the graphics queue only
destroyGpuQueues_GraphicsOnly ==
    /\ phase = "running"
    /\ m_graphicsQueue' = FALSE
    /\ last' = [op |-> "destroyGpuQueues", args |-> <<>>, returned |-> TRUE, ret |-> 0, touched |-> FALSE, index |-> 0]
    /\ UNCHANGED <<phase, m_device, m_presenter, m_computeQueues, mem, trace, pumped>>

destroyGpuQueues ==
    /\ phase = "running"
    /\ m_graphicsQueue' = FALSE
    /\ m_computeQueues' = [i \in SlotIndexes |-> Null]
    /\ last' = [op |-> "destroyGpuQueues", args |-> <<>>, returned |-> TRUE, ret |-> 0, touched |-> FALSE, index |-> 0]
    /\ UNCHANGED <<phase, m_device, m_presenter, mem, trace, pumped>>

(***************************************************************************)
(* SceGnmDriver::~SceGnmDriver: lines 31-36                                *)
(***************************************************************************)
SceGnmDriverDestructor ==
    /\ phase = "running"
    /\ m_graphicsQueue' = FALSE
    /\ m_computeQueues' = [i \in SlotIndexes |-> Null]
    /\ m_presenter' = FALSE
    /\ phase' = "destroyed"
    /\ last' = [op |-> "~SceGnmDriver", args |-> <<>>, returned |-> TRUE, ret |-> 0, touched |-> FALSE, index |-> 0]
    /\ UNCHANGED <<m_device, mem, trace, pumped>>

(***************************************************************************)
(* SceGnmDriver::SceGnmDriver, in two steps.                               *)
(*   adapterFound:  VltInstance::enumAdapters(0) returns an adapter        *)
(*   deviceCreated: VltAdapter::createDevice returns a device (asked only  *)
(*                  of an adapter that was found)                          *)
(***************************************************************************)
\* createVltDevice without the test of the device createDevice returned
createVltDevice_DeviceNotTested(adapterFound, deviceCreated) ==
    /\ phase = "constructing"
    /\ m_device' = (adapterFound /\ deviceCreated)
    /\ phase' = IF adapterFound THEN "initGnmDriver_50" ELSE "fatal"
    /\ last' = [op |-> "createVltDevice", args |-> <<adapterFound, deviceCreated>>,
                returned |-> adapterFound, ret |-> 0, touched |-> FALSE, index |-> 0]
    /\ UNCHANGED <<m_graphicsQueue, m_presenter, m_computeQueues, mem, trace, pumped>>

\* lines 56-80 with the way back through initGnmDriver (lines 42-46, 52) and the
\* constructor (lines 27-28) when it fails: m_device stays null, initGnmDriver
\* returns false and LOG_ASSERT(success == true) stops the process
createVltDevice(adapterFound, deviceCreated) ==
    /\ phase = "constructing"
    /\ m_device' = (adapterFound /\ deviceCreated)
    /\ phase' = IF adapterFound /\ deviceCreated THEN "initGnmDriver_50" ELSE "fatal"
    /\ last' = [op |-> "createVltDevice", args |-> <<adapterFound, deviceCreated>>,
                returned |-> (adapterFound /\ deviceCreated), ret |-> 0, touched |-> FALSE, index |-> 0]
    /\ UNCHANGED <<m_graphicsQueue, m_presenter, m_computeQueues, mem, trace, pumped>>

\* lines 176-181, called at line 50; initGnmDriver then returns true and the
\* constructor returns
createGraphicsQueue ==
    /\ phase = "initGnmDriver_50"
    /\ m_graphicsQueue' = TRUE
    /\ phase' = "running"
    /\ last' = [op |-> "createGraphicsQueue", args |-> <<>>, returned |-> TRUE, ret |-> 0, touched |-> FALSE, index |-> 0]
    /\ UNCHANGED <<m_device, m_presenter, m_computeQueues, mem, trace, pumped>>

(***************************************************************************)
(* SceGnmDriver::createPresenter: lines 82-95                              *)
(***************************************************************************)
createPresenter ==
    /\ phase = "running"
    /\ m_device
    /\ m_presenter' = TRUE
    /\ last' = [op |-> "createPresenter", args |-> <<>>, returned |-> TRUE, ret |-> 0, touched |-> FALSE, index |-> 0]
    /\ UNCHANGED <<phase, m_device, m_graphicsQueue, m_computeQueues, mem, trace, pumped>>

(***************************************************************************)
(* The backend the driver talks to, as a recording mock: SceGpuQueue::     *)
(* record / submit / present and ScePresenter::acquireNextImage append     *)
(* what they were asked to do to `trace`.                                  *)
(***************************************************************************)
EventsOf(t, op) == SelectSeq(t, LAMBDA e : e.op = op)

\* SceGpuQueue::record(cmd): the k-th recording yields command list k, recorded from cmd
RecordedList(t, cmd) == [serial |-> Len(EventsOf(t, "record")) + 1, buffer |-> cmd.buffer, size |-> cmd.size]

\* ScePresenter::acquireNextImage(sync, imageIndex): the k-th acquisition yields sync pair k
AcquiredSync(t) == LET k == Len(EventsOf(t, "acquire")) + 1 IN [acquire |-> k, present |-> k]

\* the sync pair the presenter holds: the one of its latest acquisition
PresenterSync(t) ==
    LET a == EventsOf(t, "acquire") IN
    IF a = <<>> THEN [acquire |-> 0, present |-> 0] ELSE a[Len(a)].sync

RecordEvent(cmdList)     == [op |-> "record", cmdList |-> cmdList]
AcquireEvent(sync)       == [op |-> "acquire", sync |-> sync]
SubmitEvent(submission)  == [op |-> "submit", cmdList |-> submission.cmdList,
                             wait |-> submission.wait, wake |-> submission.wake]
PresentEvent(sync)       == [op |-> "present", sync |-> sync]

\* submitPresent with the present request issued before the submission
submitPresent_PresentFirst(t, cmdList) ==
    LET sync       == AcquiredSync(t)
        t1         == Append(t, AcquireEvent(sync))
        submission == [cmdList |-> cmdList, wait |-> sync.acquire, wake |-> sync.present]
        t2         == Append(t1, PresentEvent(PresenterSync(t1)))
    IN  Append(t2, SubmitEvent(submission))

\* submitPresent submitting the command list recorded first instead of the one it was given
submitPresent_StaleList(t, cmdList) ==
    LET sync       == AcquiredSync(t)
        t1         == Append(t, AcquireEvent(sync))
        submission == [cmdList |-> EventsOf(t, "record")[1].cmdList,
                       wait |-> sync.acquire, wake |-> sync.present]
        t2         == Append(t1, SubmitEvent(submission))
    IN  Append(t2, PresentEvent(PresenterSync(t2)))

\* submitPresent waiting and waking on the sync pair the presenter held before this
\* call's acquisition
submitPresent_EarlierSync(t, cmdList) ==
    LET sync       == AcquiredSync(t)
        t1         == Append(t, AcquireEvent(sync))
        submission == [cmdList |-> cmdList, wait |-> PresenterSync(t).acquire,
                       wake |-> PresenterSync(t).present]
        t2         == Append(t1, SubmitEvent(submission))
    IN  Append(t2, PresentEvent(PresenterSync(t2)))

(***************************************************************************)
(* SceGnmDriver::submitPresent: lines 141-160, on a trace t that already   *)
(* holds the recording: acquire, submit, present.                          *)
(***************************************************************************)
submitPresent(t, cmdList) ==
    LET sync       == AcquiredSync(t)
        t1         == Append(t, AcquireEvent(sync))
        submission == [cmdList |-> cmdList, wait |-> sync.acquire, wake |-> sync.present]
        t2         == Append(t1, SubmitEvent(submission))
    IN  Append(t2, PresentEvent(PresenterSync(t2)))

(***************************************************************************)
(* SceGnmDriver::submitAndFlipCommandBuffers: lines 109-139, the whole     *)
(* call.  dcb / size are dcbGpuAddrs[0] / dcbSizesInBytes[0].              *)
(*   - LOG_ASSERT(count == 1) stops the process when it fails;             *)
(*   - m_graphicsQueue->record and m_presenter->acquireNextImage           *)
(*     dereference the member without a check: a null member is undefined  *)
(*     behaviour, a null-pointer access that takes the process down.       *)
(***************************************************************************)
submitAndFlipCommandBuffers(count, dcb, size) ==
    LET args    == <<count, dcb, size>>
        cmd     == [buffer |-> dcb, size |-> size]
        cmdList == RecordedList(trace, cmd)
        t1      == Append(trace, RecordEvent(cmdList))
    IN  /\ phase = "running"
        /\ IF count # 1
           THEN /\ phase' = "fatal"
                /\ last' = [op |-> "submit", args |-> args, returned |-> FALSE, ret |-> 0,
                            touched |-> FALSE, index |-> 0]
                /\ UNCHANGED trace
           ELSE IF ~m_graphicsQueue
           THEN /\ phase' = "crashed"
                /\ last' = [op |-> "submit", args |-> args, returned |-> FALSE, ret |-> 0,
                            touched |-> FALSE, index |-> 0]
                /\ UNCHANGED trace
           ELSE IF ~m_presenter
           THEN /\ phase' = "crashed"
                /\ last' = [op |-> "submit", args |-> args, returned |-> FALSE, ret |-> 0,
                            touched |-> FALSE, index |-> 0]
                /\ trace' = t1
           ELSE /\ trace' = submitPresent(t1, cmdList)
                /\ last' = [op |-> "submit", args |-> args, returned |-> TRUE, ret |-> SCE_OK,
                            touched |-> FALSE, index |-> 0]
                /\ UNCHANGED phase
        /\ UNCHANGED <<m_device, m_graphicsQueue, m_presenter, m_computeQueues, mem, pumped>>

(***************************************************************************)
(* SceGnmDriver::sceGnmSubmitDone: lines 162-174                           *)
(***************************************************************************)
\* sceGnmSubmitDone returning without the call of glfwPollEvents
sceGnmSubmitDone_NoPollEvents ==
    /\ phase = "running"
    /\ pumped < MaxPumps
    /\ last' = [op |-> "submitDone", args |-> <<>>, returned |-> TRUE, ret |-> SCE_OK, touched |-> FALSE, index |-> 0]
    /\ UNCHANGED <<phase, m_device, m_graphicsQueue, m_presenter, m_computeQueues, mem, trace, pumped>>

sceGnmSubmitDone ==
    /\ phase = "running"
    /\ pumped < MaxPumps
    /\ pumped' = pumped + 1
    /\ last' = [op |-> "submitDone", args |-> <<>>, returned |-> TRUE, ret |-> SCE_OK, touched |-> FALSE, index |-> 0]
    /\ UNCHANGED <<phase, m_device, m_graphicsQueue, m_presenter, m_computeQueues, mem, trace>>

(***************************************************************************)
(* VltResource.  m_useCountR / m_useCountW are std::atomic<uint32_t>: a    *)
(* load, `+= 1` and `-= 1` are one indivisible step each.                  *)
(***************************************************************************)
Threads  == 1 .. NumThreads
Accesses == {"Read", "Write", "None"}
\* a thread outside a call has no locals; a thread that has not completed isInUse has no result
NoLocal  == [access |-> "None", result |-> FALSE]
NoResult == [op |-> "none", access |-> "None", value |-> FALSE]

\* uint32_t + 1 and - 1 on the int32 view of the bit pattern
Inc32(c) == IF c = 2147483647 THEN -2147483647 - 1 ELSE c + 1
Dec32(c) == IF c = -2147483647 - 1 THEN 2147483647 ELSE c - 1

\* acquire storing 1 where it should add 1: an acquire made while the counter is
\* not 0 is lost
acquire_StoresOne(t, access) ==
    /\ pc[t] = "idle"
    /\ IF access # "None"
       THEN IF access = "Read"
            THEN m_useCountR' = 1 /\ UNCHANGED m_useCountW
            ELSE m_useCountW' = 1 /\ UNCHANGED m_useCountR
       ELSE UNCHANGED <<m_useCountR, m_useCountW>>
    /\ UNCHANGED <<pc, local, ret>>

\* acquire without the test for None: None takes the branch of Write
acquire_NoneAsWrite(t, access) ==
    /\ pc[t] = "idle"
    /\ IF access = "Read"
       THEN m_useCountR' = Inc32(m_useCountR) /\ UNCHANGED m_useCountW
       ELSE m_useCountW' = Inc32(m_useCountW) /\ UNCHANGED m_useCountR
    /\ UNCHANGED <<pc, local, ret>>

\* VltResource::acquire, lines 54-62
acquire(t, access) ==
    /\ pc[t] = "idle"
    /\ IF access # "None"
       THEN IF access = "Read"
            THEN m_useCountR' = Inc32(m_useCountR) /\ UNCHANGED m_useCountW
            ELSE m_useCountW' = Inc32(m_useCountW) /\ UNCHANGED m_useCountR
       ELSE UNCHANGED <<m_useCountR, m_useCountW>>
    /\ UNCHANGED <<pc, local, ret>>

\* release refusing to take a counter below 0
release_ChecksZero(t, access) ==
    /\ pc[t] = "idle"
    /\ IF access # "None"
       THEN IF access = "Read"
            THEN m_useCountR' = (IF m_useCountR = 0 THEN 0 ELSE Dec32(m_useCountR)) /\ UNCHANGED m_useCountW
            ELSE m_useCountW' = (IF m_useCountW = 0 THEN 0 ELSE Dec32(m_useCountW)) /\ UNCHANGED m_useCountR
       ELSE UNCHANGED <<m_useCountR, m_useCountW>>
    /\ UNCHANGED <<pc, local, ret>>

\* VltResource::release, lines 70-78
release(t, access) ==
    /\ pc[t] = "idle"
    /\ IF access # "None"
       THEN IF access = "Read"
            THEN m_useCountR' = Dec32(m_useCountR) /\ UNCHANGED m_useCountW
            ELSE m_useCountW' = Dec32(m_useCountW) /\ UNCHANGED m_useCountR
       ELSE UNCHANGED <<m_useCountR, m_useCountW>>
    /\ UNCHANGED <<pc, local, ret>>

\* VltResource::isInUse, line 42: bool result = m_useCountW.load() != 0
isInUseLoadW(t, access) ==
    /\ pc[t] = "idle"
    /\ pc' = [pc EXCEPT ![t] = "isInUse_43"]
    /\ local' = [local EXCEPT ![t] = [access |-> access, result |-> (m_useCountW # 0)]]
    /\ ret' = [ret EXCEPT ![t] = NoResult]
    /\ UNCHANGED <<m_useCountR, m_useCountW>>

\* the read counter looked at whatever the access asked about
isInUseResult_AnyAccess(access, result) == result \/ (m_useCountR # 0)

\* the value lines 43-45 compute from the result so far
isInUseResult(access, result) ==
    IF access = "Read" THEN result \/ (m_useCountR # 0) ELSE result

\* VltResource::isInUse, lines 43-45: if (access == Read) result |= m_useCountR.load() != 0; return result
isInUseReturn(t) ==
    /\ pc[t] = "isInUse_43"
    /\ pc' = [pc EXCEPT ![t] = "idle"]
    /\ ret' = [ret EXCEPT ![t] = [op |-> "isInUse", access |-> local[t].access,
                                  value |-> isInUseResult(local[t].access, local[t].result)]]
    /\ local' = [local EXCEPT ![t] = NoLocal]
    /\ UNCHANGED <<m_useCountR, m_useCountW>>

(***************************************************************************)
(* VltResource::waitIdle, lines 87-91: util::sync::spin(50000, fn) with    *)
(* fn = [this, access] { return !isInUse(access); }.                       *)
(***************************************************************************)
\* line 89: the spin count handed to util::sync::spin
SpinCount == 50000

\* line 90: fn, !isInUse(access), from the value isInUse computed at line 42; for
\* Read it loads the read counter (line 44)
waitIdleFn(access, result) == ~isInUseResult(access, result)

\* waitIdle handing ten times the spin count to util::sync::spin
waitIdle_TenfoldSpinCount(t, access) ==
    /\ pc[t] = "idle"
    /\ pc' = [pc EXCEPT ![t] = "spin"]
    /\ local' = [local EXCEPT ![t] = [access |-> access, result |-> FALSE,
                                       spinCount |-> 10 * SpinCount, probes |-> 0]]
    /\ ret' = [ret EXCEPT ![t] = NoResult]
    /\ UNCHANGED <<m_useCountR, m_useCountW>>

\* lines 87-91: the call enters util::sync::spin with spinCount = 50000 and no
\* probe of fn made yet
waitIdle(t, access) ==
    /\ pc[t] = "idle"
    /\ pc' = [pc EXCEPT ![t] = "spin"]
    /\ local' = [local EXCEPT ![t] = [access |-> access, result |-> FALSE,
                                       spinCount |-> SpinCount, probes |-> 0]]
    /\ ret' = [ret EXCEPT ![t] = NoResult]
    /\ UNCHANGED <<m_useCountR, m_useCountW>>

\* util::sync::spin (UtilSync.h) after one probe, fn having yielded `found`.  By
\* the contract of waitIdle (lines 80-86: "Blocks calling thread until the GPU
\* finishes using the resource") it returns when fn holds, and with its return
\* waitIdle returns; otherwise it probes again: the spin count paces the probes and
\* ends nothing.  `probes` counts the probes made, up to spinCount.
spin(t, found) ==
    LET probes == local[t].probes + 1 IN
    IF found
    THEN /\ pc' = [pc EXCEPT ![t] = "idle"]
         /\ ret' = [ret EXCEPT ![t] = [op |-> "waitIdle", access |-> local[t].access, value |-> found]]
         /\ local' = [local EXCEPT ![t] = NoLocal]
    ELSE /\ pc' = [pc EXCEPT ![t] = "spin"]
         /\ local' = [local EXCEPT ![t].probes = IF probes >= local[t].spinCount
                                                  THEN local[t].spinCount ELSE probes,
                                    ![t].result = FALSE]
         /\ UNCHANGED ret

\* a probe, fn calling isInUse(access): the load of the write counter at line 42.
\* For Read the load of line 44 is still to come, and other threads run in between;
\* for any other access isInUse returns what line 42 found and the probe is over.
waitIdleFnLoadW(t) ==
    /\ pc[t] = "spin"
    /\ IF local[t].access = "Read"
       THEN /\ pc' = [pc EXCEPT ![t] = "spin_44"]
            /\ local' = [local EXCEPT ![t].result = (m_useCountW # 0)]
            /\ UNCHANGED ret
       ELSE spin(t, waitIdleFn(local[t].access, m_useCountW # 0))
    /\ UNCHANGED <<m_useCountR, m_useCountW>>

\* the rest of a probe for Read: the load of the read counter at line 44, or-ed into
\* what line 42 found
waitIdleFnLoadR(t) ==
    /\ pc[t] = "spin_44"
    /\ spin(t, waitIdleFn(local[t].access, local[t].result))
    /\ UNCHANGED <<m_useCountR, m_useCountW>>

(***************************************************************************)
(* VltExt and VltNameSet (VltExtension.h).  Extension names are numbers;   *)
(* the i-th VltExt handed to enableExtensions has name i.                  *)
(***************************************************************************)
ExtNames  == 1 .. MaxExts
\* enum class VltExtMode, lines 18-24
ExtModes  == {"Disabled", "Optional", "Required", "Passive"}
\* revisions a name set holds for a name: 0 stands for a name that is not in the set
Revisions == {0, 1, 3}

\* VltExt::VltExt, lines 37-43 and 112-114: m_revision starts at 0
VltExt(pName, mode) == [name |-> pName, mode |-> mode, revision |-> 0]

\* VltExt::operator bool, lines 70-73
operator_bool(ext) == ext.revision # 0

\* enable leaving m_revision as it is (the parameter assigned to itself)
enable_RevisionNotStored(ext, revision) == ext

\* VltExt::enable, lines 98-101
enable(ext, revision) == [ext EXCEPT !.revision = revision]

\* VltExt::setMode, lines 90-93
setMode(ext, mode) == [ext EXCEPT !.mode = mode]

\* VltExt::disable, lines 106-109
disable(ext) == [ext EXCEPT !.revision = 0]

\* VltNameSet::supports, lines 206-207 (declaration): the revision of pName in the
\* set, or zero
supports(pName) == m_names[pName]

\* VltNameSet::enableExtensions, lines 209-224 (declaration and contract); the body
\* is in VltExtension.cpp.  A Disabled entry is skipped.  A supported entry is
\* enabled with the revision the set holds and, unless Passive, its name is added to
\* nameSet.  An unsupported Required entry makes the result false.
enableExtensions ==
    /\ ppExtensions' =
          [i \in DOMAIN ppExtensions |->
              LET ext == ppExtensions[i] IN
              IF ext.mode # "Disabled" /\ supports(ext.name) # 0
              THEN enable(ext, supports(ext.name))
              ELSE ext]
    /\ nameSet' = nameSet \cup
          {ppExtensions[i].name : i \in {j \in DOMAIN ppExtensions :
              /\ ppExtensions[j].mode \notin {"Disabled", "Passive"}
              /\ supports(ppExtensions[j].name) # 0}}
    /\ enabledAll' = [returned |-> TRUE,
                      value |-> \A i \in DOMAIN ppExtensions :
                                    ~(ppExtensions[i].mode = "Required" /\ supports(ppExtensions[i].name) = 0)]
    /\ UNCHANGED m_names

\* VltNameSet::add, lines 183-188 (declaration): adds a name to the set; here the
\* set is the one enableExtensions fills
add(pName) == nameSet' = nameSet \cup {pName}

\* VltNameSet::merge, lines 190-198 (declaration): adds all names of the given set,
\* here those of the set asked, to the set enableExtensions fills
merge == nameSet' = nameSet \cup {n \in ExtNames : supports(n) # 0}

\* VltNameSet::disableExtension, lines 226-234 (declaration): removes the extension
\* from the set enableExtensions filled and sets its revision to 0
disableExtension(i) ==
    /\ nameSet' = nameSet \ {ppExtensions[i].name}
    /\ ppExtensions' = [ppExtensions EXCEPT ![i] = disable(@)]

(***************************************************************************)
(* Initial state: SceGnmDriver::SceGnmDriver -> initGnmDriver ->           *)
(* createVltDevice / createGraphicsQueue (lines 25-80), and a VltResource  *)
(* as constructed (lines 94-95).                                           *)
(***************************************************************************)
DriverInit(adapterFound, deviceCreated) ==
    /\ m_device = (adapterFound /\ deviceCreated)
    /\ m_graphicsQueue = (adapterFound /\ deviceCreated)
    /\ phase = IF adapterFound /\ deviceCreated THEN "running" ELSE "fatal"
    /\ m_presenter = FALSE
    /\ m_computeQueues = [i \in SlotIndexes |-> Null]
    /\ mem = GuestMemory
    /\ trace = <<>>
    /\ pumped = 0
    /\ last = NoCall
    /\ history = [ids |-> {}, remap |-> FALSE,
                  graphicsQueues |-> IF adapterFound /\ deviceCreated THEN 1 ELSE 0]

ResourceInit ==
    /\ m_useCountR = 0
    /\ m_useCountW = 0
    /\ pc = [t \in Threads |-> "idle"]
    /\ local = [t \in Threads |-> NoLocal]
    /\ ret = [t \in Threads |-> NoResult]
    /\ held = [t \in Threads |-> [a \in {"Read", "Write"} |-> 0]]
    /\ busy = [t \in Threads |-> FALSE]

\* no extension asked for yet
ExtensionInit ==
    /\ m_names = [n \in ExtNames |-> 0]
    /\ ppExtensions = <<>>
    /\ nameSet = {}
    /\ enabledAll = [returned |-> FALSE, value |-> FALSE]

Init ==
    /\ \E adapterFound \in BOOLEAN, deviceCreated \in BOOLEAN : DriverInit(adapterFound, deviceCreated)
    /\ ResourceInit
    /\ ExtensionInit

(***************************************************************************)
(* Spec: the submission pipeline.  The video-out side creates the          *)
(* presenter; the game calls submit and submitDone.                        *)
(***************************************************************************)
CreatePresenter ==
    /\ createPresenter
    /\ UNCHANGED <<history, resourceVars, extensionVars>>

Submit ==
    /\ Len(EventsOf(trace, "record")) < MaxSubmits
    /\ \E count \in Counts, dcb \in Buffers, size \in Sizes :
           submitAndFlipCommandBuffers(count, dcb, size)
    /\ UNCHANGED <<history, resourceVars, extensionVars>>

SubmitDone ==
    /\ sceGnmSubmitDone
    /\ UNCHANGED <<history, resourceVars, extensionVars>>

Next == CreatePresenter \/ Submit \/ SubmitDone

Spec == Init /\ [][Next]_vars

(***************************************************************************)
(* SpecQueue: the virtual queue manager under every combination of the     *)
(* arguments tried.                                                        *)
(***************************************************************************)
MapComputeQueue ==
    /\ \E pipeId \in PipeIds, queueId \in QueueIds, ringBaseAddr \in RingBaseAddrs,
          ringSizeInDW \in RingSizes, readPtrAddr \in ReadPtrAddrs :
           mapComputeQueue(pipeId, queueId, ringBaseAddr, ringSizeInDW, readPtrAddr)
    /\ UNCHANGED <<history, resourceVars, extensionVars>>

UnmapComputeQueue ==
    /\ \E vqueueId \in VQueueIds : unmapComputeQueue(vqueueId)
    /\ UNCHANGED <<history, resourceVars, extensionVars>>

DingDong ==
    /\ \E vqueueId \in VQueueIds : dingDong(vqueueId, 0)
    /\ UNCHANGED <<history, resourceVars, extensionVars>>

DestroyGpuQueues ==
    /\ destroyGpuQueues
    /\ UNCHANGED <<history, resourceVars, extensionVars>>

NextQueue == MapComputeQueue \/ UnmapComputeQueue \/ DingDong \/ DestroyGpuQueues

SpecQueue == Init /\ [][NextQueue]_vars

(***************************************************************************)
(* SpecRemap: map / unmap with well-formed ring arguments, keeping the     *)
(* history of the ids handed out.                                          *)
(***************************************************************************)
\* the caller takes a returned value that is no error code as the id of its queue
Remembered(pipeId, queueId) ==
    IF last'.ret \in ErrorCodes THEN history.ids
    ELSE history.ids \cup {<<pipeId, queueId, last'.ret>>}

MapAgain ==
    /\ \E pipeId \in PipeIds, queueId \in QueueIds,
          ringBaseAddr \in {a \in RingBaseAddrs : a % 256 = 0},
          ringSizeInDW \in {n \in RingSizes : isPowerOfTwo(n)},
          readPtrAddr \in WordAddrs :
           /\ mapComputeQueue(pipeId, queueId, ringBaseAddr, ringSizeInDW, readPtrAddr)
           /\ history' = [history EXCEPT
                             !.ids   = Remembered(pipeId, queueId),
                             !.remap = /\ last.op = "unmapComputeQueue" /\ last.returned
                                       /\ <<pipeId, queueId, last.args[1]>> \in history.ids]
    /\ UNCHANGED <<resourceVars, extensionVars>>

Unmap ==
    /\ \E vqueueId \in VQueueIds : unmapComputeQueue(vqueueId)
    /\ history' = [history EXCEPT !.remap = FALSE]
    /\ UNCHANGED <<resourceVars, extensionVars>>

DestroyAll ==
    /\ destroyGpuQueues
    /\ history' = [history EXCEPT !.remap = FALSE]
    /\ UNCHANGED <<resourceVars, extensionVars>>

NextRemap == MapAgain \/ Unmap \/ DestroyAll

SpecRemap == Init /\ [][NextRemap]_vars

(***************************************************************************)
(* SpecLife: the driver from its construction to its destruction.  The     *)
(* constructor runs first; the calls of the game follow in any order.      *)
(* mapComputeQueue is called for the low pipes with well-formed ring       *)
(* arguments, submit with one buffer.                                      *)
(***************************************************************************)
InitLife ==
    /\ phase = "constructing"
    /\ m_device = FALSE
    /\ m_graphicsQueue = FALSE
    /\ m_presenter = FALSE
    /\ m_computeQueues = [i \in SlotIndexes |-> Null]
    /\ mem = GuestMemory
    /\ trace = <<>>
    /\ pumped = 0
    /\ last = NoCall
    /\ history = [ids |-> {}, remap |-> FALSE, graphicsQueues |-> 0]
    /\ ResourceInit
    /\ ExtensionInit

LifeCreateVltDevice ==
    /\ \E adapterFound \in BOOLEAN, deviceCreated \in BOOLEAN : createVltDevice(adapterFound, deviceCreated)
    /\ UNCHANGED <<history, resourceVars, extensionVars>>

LifeCreateGraphicsQueue ==
    /\ createGraphicsQueue
    /\ history' = [history EXCEPT !.graphicsQueues = @ + 1]
    /\ UNCHANGED <<resourceVars, extensionVars>>

LifeSubmit ==
    /\ Len(EventsOf(trace, "record")) < MaxSubmits
    /\ \E count \in Counts, dcb \in {"bufA"}, size \in {16} :
           submitAndFlipCommandBuffers(count, dcb, size)
    /\ UNCHANGED <<history, resourceVars, extensionVars>>

LifeMap ==
    /\ \E pair \in {p \in ValidPairs : p[1] <= PipeLow},
          ringBaseAddr \in {a \in RingBaseAddrs : a % 256 = 0},
          ringSizeInDW \in {n \in RingSizes : isPowerOfTwo(n)},
          readPtrAddr \in WordAddrs :
           mapComputeQueue(pair[1], pair[2], ringBaseAddr, ringSizeInDW, readPtrAddr)
    /\ UNCHANGED <<history, resourceVars, extensionVars>>

LifeDingDong ==
    /\ dingDong(VQueueIdBegin, 0)
    /\ UNCHANGED <<history, resourceVars, extensionVars>>

LifeDestructor ==
    /\ SceGnmDriverDestructor
    /\ UNCHANGED <<history, resourceVars, extensionVars>>

NextLife ==
    \/ LifeCreateVltDevice
    \/ LifeCreateGraphicsQueue
    \/ CreatePresenter
    \/ LifeSubmit
    \/ SubmitDone
    \/ LifeMap
    \/ UnmapComputeQueue
    \/ LifeDingDong
    \/ DestroyGpuQueues
    \/ LifeDestructor

SpecLife == InitLife /\ [][NextLife]_vars

(***************************************************************************)
(* SpecResource: NumThreads threads use one VltResource.  Every thread     *)
(* releases only what it has acquired and holds at most MaxHold acquires   *)
(* of one access type.                                                     *)
(***************************************************************************)
Acquire(t, access) ==
    /\ access # "None" => held[t][access] < MaxHold
    /\ acquire(t, access)
    /\ held' = IF access = "None" THEN held ELSE [held EXCEPT ![t][access] = @ + 1]
    /\ UNCHANGED <<driverVars, extensionVars>>
    /\ UNCHANGED busy

Release(t, access) ==
    /\ access # "None" => held[t][access] > 0
    /\ release(t, access)
    /\ held' = IF access = "None" THEN held ELSE [held EXCEPT ![t][access] = @ - 1]
    /\ UNCHANGED <<driverVars, extensionVars>>
    /\ UNCHANGED busy

IsInUseLoadW(t, access) ==
    /\ isInUseLoadW(t, access)
    /\ UNCHANGED <<held, driverVars, extensionVars>>
    /\ UNCHANGED busy

IsInUseReturn(t) ==
    /\ isInUseReturn(t)
    /\ UNCHANGED <<held, driverVars, extensionVars>>
    /\ UNCHANGED busy

\* the threads that call isInUse
Checkers == {t \in Threads : t <= NumCheckers}

NextResource ==
    \/ \E t \in Threads, access \in Accesses : Acquire(t, access)
    \/ \E t \in Threads, access \in Accesses : Release(t, access)
    \/ \E t \in Checkers, access \in Accesses : IsInUseLoadW(t, access)
    \/ \E t \in Checkers : IsInUseReturn(t)

InitResource == DriverInit(TRUE, TRUE) /\ ResourceInit /\ ExtensionInit

SpecResource == InitResource /\ [][NextResource]_vars

(***************************************************************************)
(* SpecCaller: one thread calls acquire, release and isInUse in any order, *)
(* a release that no acquire matches included.  `last` records each call.  *)
(* The thread has at most MaxHold acquires outstanding and takes a counter *)
(* at most MaxUnpaired below 0.                                            *)
(***************************************************************************)
Caller == CHOOSE t \in Threads : \A u \in Threads : t <= u
driverRest == <<phase, m_device, m_graphicsQueue, m_presenter, m_computeQueues, mem, trace, pumped, history>>
ResourceCall(op, access) ==
    [op |-> op, args |-> <<access>>, returned |-> TRUE, ret |-> 0, touched |-> FALSE, index |-> 0]
UseCount(access) == IF access = "Read" THEN m_useCountR ELSE m_useCountW

CallAcquire(access) ==
    /\ access # "None" => held[Caller][access] < MaxHold
    /\ acquire(Caller, access)
    /\ held' = IF access = "None" THEN held ELSE [held EXCEPT ![Caller][access] = @ + 1]
    /\ last' = ResourceCall("acquire", access)
    /\ UNCHANGED <<driverRest, extensionVars>>
    /\ UNCHANGED busy

\* a release matches an outstanding acquire when there is one
CallRelease(access) ==
    /\ access # "None" => UseCount(access) > -MaxUnpaired
    /\ release(Caller, access)
    /\ held' = IF access = "None" \/ held[Caller][access] = 0 THEN held
               ELSE [held EXCEPT ![Caller][access] = @ - 1]
    /\ last' = ResourceCall("release", access)
    /\ UNCHANGED <<driverRest, extensionVars>>
    /\ UNCHANGED busy

CallIsInUseLoadW(access) ==
    /\ isInUseLoadW(Caller, access)
    /\ last' = ResourceCall("isInUse", access)
    /\ UNCHANGED <<held, driverRest, extensionVars>>
    /\ UNCHANGED busy

CallIsInUseReturn ==
    /\ isInUseReturn(Caller)
    /\ last' = ResourceCall("isInUse", local[Caller].access)
    /\ UNCHANGED <<held, driverRest, extensionVars>>
    /\ UNCHANGED busy

NextCaller ==
    \/ \E access \in Accesses : CallAcquire(access)
    \/ \E access \in Accesses : CallRelease(access)
    \/ \E access \in Accesses : CallIsInUseLoadW(access)
    \/ CallIsInUseReturn

SpecCaller == InitResource /\ [][NextCaller]_vars

(***************************************************************************)
(* SpecRace: the checkers call isInUse while every thread acquires and     *)
(* releases; each step records in `busy` what the calls under way could    *)
(* have seen of the counters.  SpecWait does the same for waitIdle.        *)
(***************************************************************************)
\* what a step of any thread shows of the resource to the isInUse calls under way,
\* those made by a probe of waitIdle included: a call that is between its two loads
\* (lines 42 and 44) after the step has seen the resource in use throughout if it had
\* so far (or has just made its first load) and a counter is not 0 after the step
Watch ==
    busy' = [u \in Threads |->
                /\ pc'[u] \in {"isInUse_43", "spin_44"}
                /\ pc[u] = pc'[u] => busy[u]
                /\ m_useCountR' # 0 \/ m_useCountW' # 0]

RaceAcquire(t, access) ==
    /\ access # "None" => held[t][access] < MaxHold
    /\ acquire(t, access)
    /\ held' = IF access = "None" THEN held ELSE [held EXCEPT ![t][access] = @ + 1]
    /\ UNCHANGED <<driverVars, extensionVars>>
    /\ Watch

RaceRelease(t, access) ==
    /\ access # "None" => held[t][access] > 0
    /\ release(t, access)
    /\ held' = IF access = "None" THEN held ELSE [held EXCEPT ![t][access] = @ - 1]
    /\ UNCHANGED <<driverVars, extensionVars>>
    /\ Watch

RaceIsInUseLoadW(t, access) ==
    /\ isInUseLoadW(t, access)
    /\ UNCHANGED <<held, driverVars, extensionVars>>
    /\ Watch

RaceIsInUseReturn(t) ==
    /\ isInUseReturn(t)
    /\ UNCHANGED <<held, driverVars, extensionVars>>
    /\ Watch

NextRace ==
    \/ \E t \in Threads, access \in Accesses : RaceAcquire(t, access)
    \/ \E t \in Threads, access \in Accesses : RaceRelease(t, access)
    \/ \E t \in Checkers, access \in Accesses : RaceIsInUseLoadW(t, access)
    \/ \E t \in Checkers : RaceIsInUseReturn(t)

SpecRace == InitResource /\ [][NextRace]_vars

(***************************************************************************)
(* SpecWait: one thread waits for the resource to become idle while        *)
(* another one, the holder, acquires and releases it.  The holder may      *)
(* keep what it holds for ever.                                            *)
(***************************************************************************)
Holder == CHOOSE t \in Threads : t # Caller

WaitIdle(access) ==
    /\ waitIdle(Caller, access)
    /\ UNCHANGED <<held, driverVars, extensionVars>>
    /\ UNCHANGED busy

WaitIdleFnLoadW ==
    /\ waitIdleFnLoadW(Caller)
    /\ UNCHANGED <<held, driverVars, extensionVars>>
    /\ UNCHANGED busy

WaitIdleFnLoadR ==
    /\ waitIdleFnLoadR(Caller)
    /\ UNCHANGED <<held, driverVars, extensionVars>>
    /\ UNCHANGED busy

NextWait ==
    \/ \E access \in Accesses : WaitIdle(access)
    \/ WaitIdleFnLoadW
    \/ WaitIdleFnLoadR
    \/ \E access \in Accesses : Acquire(Holder, access)
    \/ \E access \in Accesses : Release(Holder, access)

SpecWait == InitResource /\ [][NextWait]_vars

(***************************************************************************)
(* SpecWaitRace: the same two threads, each step recording in `busy` what  *)
(* the probe under way could have seen of the counters.                    *)
(***************************************************************************)
RaceWaitIdle(access) ==
    /\ waitIdle(Caller, access)
    /\ UNCHANGED <<held, driverVars, extensionVars>>
    /\ Watch

RaceWaitIdleFnLoadW ==
    /\ waitIdleFnLoadW(Caller)
    /\ UNCHANGED <<held, driverVars, extensionVars>>
    /\ Watch

RaceWaitIdleFnLoadR ==
    /\ waitIdleFnLoadR(Caller)
    /\ UNCHANGED <<held, driverVars, extensionVars>>
    /\ Watch

NextWaitRace ==
    \/ \E access \in Accesses : RaceWaitIdle(access)
    \/ RaceWaitIdleFnLoadW
    \/ RaceWaitIdleFnLoadR
    \/ \E access \in Accesses : RaceAcquire(Holder, access)
    \/ \E access \in Accesses : RaceRelease(Holder, access)

SpecWaitRace == InitResource /\ [][NextWaitRace]_vars

(***************************************************************************)
(* SpecExt: extension negotiation.  The set asked holds any revision for   *)
(* each name (whatever add / merge / disableExtension made of it before);  *)
(* MaxExts VltExt objects of any mode are constructed.  Every public       *)
(* method of VltExt and of the set being filled may be called at any time, *)
(* before, between and after calls of enableExtensions.                    *)
(***************************************************************************)
InitExt ==
    /\ DriverInit(TRUE, TRUE)
    /\ ResourceInit
    /\ m_names \in [ExtNames -> Revisions]
    /\ ppExtensions \in {[i \in ExtNames |-> VltExt(i, modes[i])] : modes \in [ExtNames -> ExtModes]}
    /\ nameSet = {}
    /\ enabledAll = [returned |-> FALSE, value |-> FALSE]

\* a call other than enableExtensions has been made: no value of enableExtensions is at hand
NoValue == enabledAll' = [returned |-> FALSE, value |-> FALSE]

EnableExtensions ==
    /\ enableExtensions
    /\ UNCHANGED <<driverVars, resourceVars>>

SetMode(i, mode) ==
    /\ ppExtensions' = [ppExtensions EXCEPT ![i] = setMode(@, mode)]
    /\ NoValue
    /\ UNCHANGED <<m_names, nameSet, driverVars, resourceVars>>

Enable(i, revision) ==
    /\ ppExtensions' = [ppExtensions EXCEPT ![i] = enable(@, revision)]
    /\ NoValue
    /\ UNCHANGED <<m_names, nameSet, driverVars, resourceVars>>

Disable(i) ==
    /\ ppExtensions' = [ppExtensions EXCEPT ![i] = disable(@)]
    /\ NoValue
    /\ UNCHANGED <<m_names, nameSet, driverVars, resourceVars>>

Add(pName) ==
    /\ add(pName)
    /\ NoValue
    /\ UNCHANGED <<m_names, ppExtensions, driverVars, resourceVars>>

Merge ==
    /\ merge
    /\ NoValue
    /\ UNCHANGED <<m_names, ppExtensions, driverVars, resourceVars>>

DisableExtension(i) ==
    /\ disableExtension(i)
    /\ NoValue
    /\ UNCHANGED <<m_names, driverVars, resourceVars>>

NextExt ==
    \/ EnableExtensions
    \/ \E i \in ExtNames, mode \in ExtModes : SetMode(i, mode)
    \/ \E i \in ExtNames, revision \in Revisions : Enable(i, revision)
    \/ \E i \in ExtNames : Disable(i)
    \/ \E pName \in ExtNames : Add(pName)
    \/ Merge
    \/ \E i \in ExtNames : DisableExtension(i)

SpecExt == InitExt /\ [][NextExt]_vars

(***************************************************************************)
(* Properties of the submission pipeline (Spec).                           *)
(***************************************************************************)
\* the step is a call submit(1, ...) on a driver whose graphics queue and presenter exist
SubmitOneStep ==
    /\ last'.op = "submit"
    /\ last'.args[1] = 1
    /\ m_graphicsQueue
    /\ m_presenter

OpsOf(t) == [i \in 1 .. Len(t) |-> t[i].op]

\* C1: every call of submit with count == 1 (on a driver whose graphics queue and
\* presenter exist) makes exactly four backend requests, each once and in this order:
\* record, acquire, submit, present; and it returns SCE_OK.
C1_SubmitRunsFourStepsInOrder ==
    [][SubmitOneStep =>
          /\ Len(trace') = Len(trace) + 4
          /\ OpsOf(SubSeq(trace', Len(trace) + 1, Len(trace'))) = <<"record", "acquire", "submit", "present">>
          /\ last'.returned
          /\ last'.ret = SCE_OK
          /\ phase' = "running"]_vars

C1_Witness ==
    /\ last.op = "submit" /\ last.args[1] = 1 /\ last.returned
    /\ OpsOf(trace) = <<"record", "acquire", "submit", "present">>

\* the k-th group of four requests: recording k, acquisition k, the submission of the
\* list recorded in this group, waiting and waking on the sync pair acquired in this
\* group, and the presentation on that pair
GroupInOrder(k) ==
    LET r == trace[4 * k - 3]
        a == trace[4 * k - 2]
        s == trace[4 * k - 1]
        p == trace[4 * k]
    IN  /\ r.op = "record"  /\ r.cmdList.serial = k
        /\ a.op = "acquire" /\ a.sync.acquire = k
        /\ s.op = "submit"  /\ s.cmdList = r.cmdList
        /\ p.op = "present" /\ p.sync = a.sync

\* C2: the backend trace of N sequential submit calls is the concatenation of the N
\* per-call record / acquire / submit / present groups in call order: a call appends
\* its group after everything earlier calls produced and changes nothing before it,
\* its group records the buffer and size the call was given, and the list submitted
\* k-th is the list recorded k-th.
C2_SubmissionsInCallOrder ==
    /\ [](phase # "crashed" =>
             /\ Len(trace) % 4 = 0
             /\ \A k \in 1 .. (Len(trace) \div 4) : GroupInOrder(k))
    /\ [][SubmitOneStep =>
             /\ SubSeq(trace', 1, Len(trace)) = trace
             /\ Len(trace') = Len(trace) + 4
             /\ trace'[Len(trace) + 1].cmdList.buffer = last'.args[2]
             /\ trace'[Len(trace) + 1].cmdList.size = last'.args[3]
             /\ trace'[Len(trace) + 3].cmdList = trace'[Len(trace) + 1].cmdList]_vars

\* three calls have completed, with different buffers
C2_Witness ==
    /\ phase = "running"
    /\ Len(trace) = 12
    /\ trace[1].cmdList.buffer = "bufA"
    /\ trace[5].cmdList.buffer = "bufB"
    /\ trace[11].cmdList.buffer = "bufA"

(***************************************************************************)
(* Properties of the virtual queue manager (SpecQueue, SpecRemap).         *)
(***************************************************************************)
\* the latest call is mapComputeQueue; its arguments
LastIsMap        == last.op = "mapComputeQueue"
LastPipeId       == last.args[1]
LastQueueId      == last.args[2]
LastRingBaseAddr == last.args[3]
LastRingSizeInDW == last.args[4]
LastReadPtrAddr  == last.args[5]
LastArgsValid ==
    /\ LastPipeId < MaxPipeId
    /\ LastQueueId < MaxQueueId
    /\ LastRingBaseAddr % 256 = 0
    /\ \E k \in 0 .. 30 : LastRingSizeInDW = 2 ^ k
    /\ LastReadPtrAddr % 4 = 0

\* C3: mapComputeQueue hands out ids injectively: two different (pipeId, queueId)
\* pairs never get the same id, so never the same slot.
C3_IdsInjective ==
    \A e1 \in history.ids, e2 \in history.ids :
        <<e1[1], e1[2]>> # <<e2[1], e2[2]>> => e1[3] # e2[3]

\* C4: a mapComputeQueue call with valid arguments returns
\* VQueueIdBegin + pipeId * MaxPipeId + queueId, which lies in
\* [VQueueIdBegin, MaxComputeQueueCount); on return the slot id - VQueueIdBegin
\* holds a queue and the word at readPtrAddr is 0.
C4_MapReturnsIdAndPopulatesSlot ==
    (LastIsMap /\ LastArgsValid) =>
        /\ last.returned
        /\ last.ret = VQueueIdBegin + LastPipeId * MaxPipeId + LastQueueId
        /\ VQueueIdBegin <= last.ret
        /\ last.ret < MaxComputeQueueCount
        /\ m_computeQueues[last.ret - VQueueIdBegin] # Null
        /\ mem[LastReadPtrAddr] = 0

\* the pair with the largest ids, (MaxPipeId - 1, MaxQueueId - 1), has been mapped
C4_Witness ==
    /\ LastIsMap /\ LastArgsValid
    /\ LastPipeId = MaxPipeId - 1 /\ LastQueueId = MaxQueueId - 1
    /\ m_computeQueues[last.ret - VQueueIdBegin] # Null

\* C5: mapComputeQueue returns the error code of the first violated precondition in
\* the order pipeId, queueId, ringBaseAddr (256), ringSizeInDW (power of two),
\* readPtrAddr (4), also when several are violated; the five codes are pairwise
\* distinct; 3, 6 and 100 are no powers of two.
C5_FirstViolatedPreconditionReported ==
    /\ LastIsMap =>
          /\ LastPipeId >= MaxPipeId => last.ret = SCE_GNM_ERROR_COMPUTEQUEUE_INVALID_PIPE_ID
          /\ (LastPipeId < MaxPipeId /\ LastQueueId >= MaxQueueId)
                => last.ret = SCE_GNM_ERROR_COMPUTEQUEUE_INVALID_QUEUE_ID
          /\ (LastPipeId < MaxPipeId /\ LastQueueId < MaxQueueId /\ LastRingBaseAddr % 256 # 0)
                => last.ret = SCE_GNM_ERROR_COMPUTEQUEUE_INVALID_RING_BASE_ADDR
          /\ (LastPipeId < MaxPipeId /\ LastQueueId < MaxQueueId /\ LastRingBaseAddr % 256 = 0
                /\ ~(\E k \in 0 .. 30 : LastRingSizeInDW = 2 ^ k))
                => last.ret = SCE_GNM_ERROR_COMPUTEQUEUE_INVALID_RING_SIZE
          /\ (LastPipeId < MaxPipeId /\ LastQueueId < MaxQueueId /\ LastRingBaseAddr % 256 = 0
                /\ (\E k \in 0 .. 30 : LastRingSizeInDW = 2 ^ k) /\ LastReadPtrAddr % 4 # 0)
                => last.ret = SCE_GNM_ERROR_COMPUTEQUEUE_INVALID_READ_PTR_ADDR
    /\ Cardinality({SCE_GNM_ERROR_COMPUTEQUEUE_INVALID_PIPE_ID,
                     SCE_GNM_ERROR_COMPUTEQUEUE_INVALID_QUEUE_ID,
                     SCE_GNM_ERROR_COMPUTEQUEUE_INVALID_RING_BASE_ADDR,
                     SCE_GNM_ERROR_COMPUTEQUEUE_INVALID_RING_SIZE,
                     SCE_GNM_ERROR_COMPUTEQUEUE_INVALID_READ_PTR_ADDR}) = 5
    /\ \A n \in {3, 6, 100} : ~isPowerOfTwo(n)

\* a call that violates all five preconditions at once: pipeId == MaxPipeId,
\* queueId == MaxQueueId, a ring base one byte off, a ring size of 6, a read pointer
\* one byte off
C5_Witness ==
    /\ LastIsMap
    /\ LastPipeId = MaxPipeId /\ LastQueueId = MaxQueueId
    /\ LastRingBaseAddr % 256 = 1 /\ LastRingSizeInDW = 6 /\ LastReadPtrAddr % 4 = 1
    /\ last.ret = SCE_GNM_ERROR_COMPUTEQUEUE_INVALID_PIPE_ID

\* C6: a mapComputeQueue call that is rejected (one of the five validation failures,
\* or a computed id >= MaxComputeQueueCount) changes no compute-queue slot and
\* leaves the word at readPtrAddr as it was.
C6_RejectedMapChangesNothing ==
    [][(last'.op = "mapComputeQueue"
          /\ (last'.ret \in ErrorCodes \/ last'.ret >= MaxComputeQueueCount))
        => (m_computeQueues' = m_computeQueues /\ mem' = mem)]_vars

\* a call rejected for its ring size while a queue is mapped
C6_Witness ==
    /\ LastIsMap
    /\ last.ret = SCE_GNM_ERROR_COMPUTEQUEUE_INVALID_RING_SIZE
    /\ \E i \in SlotIndexes : m_computeQueues[i] # Null

\* C7: unmapComputeQueue bounds-checks its argument: for an id outside
\* [VQueueIdBegin, MaxComputeQueueCount) the call accesses no slot, returns and
\* leaves the slot array as it was; for an id in range whose slot is empty it leaves
\* the slot array as it was.
C7_UnmapBoundsChecked ==
    [][last'.op = "unmapComputeQueue" =>
          /\ (last'.args[1] < VQueueIdBegin \/ last'.args[1] >= MaxComputeQueueCount)
                => (~last'.touched /\ last'.returned /\ m_computeQueues' = m_computeQueues)
          /\ (last'.args[1] >= VQueueIdBegin /\ last'.args[1] < MaxComputeQueueCount
                /\ m_computeQueues[last'.args[1] - VQueueIdBegin] = Null)
                => m_computeQueues' = m_computeQueues]_vars

\* C8: the id mapComputeQueue returns depends on (pipeId, queueId) only: whatever
\* was mapped and unmapped before, a pair gets the id it got before; unmapping an id
\* and mapping its pair again succeeds with the same id and leaves the slot populated.
C8_SamePairSameId ==
    /\ \A e1 \in history.ids, e2 \in history.ids :
          <<e1[1], e1[2]>> = <<e2[1], e2[2]>> => e1[3] = e2[3]
    /\ history.remap =>
          /\ LastIsMap /\ last.returned
          /\ last.ret \notin ErrorCodes
          /\ \A e \in history.ids :
                <<e[1], e[2]>> = <<LastPipeId, LastQueueId>> => e[3] = last.ret
          /\ last.ret - VQueueIdBegin \in SlotIndexes
          /\ m_computeQueues[last.ret - VQueueIdBegin] # Null

\* a pair was mapped again right after its id was unmapped, while another queue is mapped
C8_Witness ==
    /\ history.remap
    /\ \E i \in SlotIndexes : i # last.ret - VQueueIdBegin /\ m_computeQueues[i] # Null

(***************************************************************************)
(* Properties of the resource usage tracker (SpecResource).                *)
(***************************************************************************)
\* thread t returns from isInUse in this step
IsInUseReturns(t) == pc[t] = "isInUse_43" /\ pc'[t] = "idle"

\* C9: isInUse(Write) returns true iff the write counter is not 0, and isInUse(Read)
\* returns true iff the read counter or the write counter is not 0; isInUse changes
\* neither counter.  The counters are those at the return, for a call during which
\* the write counter did not pass between 0 and not 0 (so for every call made after
\* a sequence of completed acquire / release calls).
C9_IsInUseReportsCounters ==
    [][\A t \in Threads :
          /\ (IsInUseReturns(t) /\ (m_useCountW # 0) = local[t].result) =>
                /\ ret'[t].op = "isInUse"
                /\ local[t].access = "Write" => (ret'[t].value <=> (m_useCountW # 0))
                /\ local[t].access = "Read"
                      => (ret'[t].value <=> (m_useCountR # 0 \/ m_useCountW # 0))
          /\ pc'[t] # pc[t] => (m_useCountR' = m_useCountR /\ m_useCountW' = m_useCountW)]_vars

\* a resource that another thread has acquired for Write only is reported in use
\* for Read
C9_Witness ==
    /\ m_useCountR = 0 /\ m_useCountW # 0
    /\ \A t \in Threads : pc[t] = "idle"
    /\ \E t \in Threads :
          /\ ret[t] = [op |-> "isInUse", access |-> "Read", value |-> TRUE]
          /\ held[t]["Write"] = 0
          /\ \E u \in Threads \ {t} : held[u]["Write"] > 0

RECURSIVE HeldUpTo(_, _)
\* the acquires of `access` threads 1 .. n have made and not released
HeldUpTo(access, n) == IF n = 0 THEN 0 ELSE held[n][access] + HeldUpTo(access, n - 1)
Outstanding(access) == HeldUpTo(access, NumThreads)

\* what isInUse(access) returns when nothing runs between its two loads
InUseNow(access) == isInUseResult(access, m_useCountW # 0)

\* C10: under any interleaving of acquire and release calls of several threads (a
\* release after its matching acquire) no counter update is lost: each counter is the
\* number of acquires minus the number of releases of its access type; with a Write
\* and a Read outstanding isInUse(Read) and isInUse(Write) are true, and once every
\* acquire is released both are false.
C10_NoLostCounterUpdate ==
    /\ m_useCountR = Outstanding("Read")
    /\ m_useCountW = Outstanding("Write")
    /\ (Outstanding("Read") > 0 /\ Outstanding("Write") > 0)
          => (InUseNow("Read") /\ InUseNow("Write"))
    /\ (Outstanding("Read") = 0 /\ Outstanding("Write") = 0)
          => (~InUseNow("Read") /\ ~InUseNow("Write"))

\* every thread holds MaxHold acquires of each access type at the same time
C10_Witness ==
    /\ \A t \in Threads : held[t]["Read"] = MaxHold /\ held[t]["Write"] = MaxHold
    /\ m_useCountR = NumThreads * MaxHold
    /\ m_useCountW = NumThreads * MaxHold

(***************************************************************************)
(* Properties of single calls on a VltResource (SpecCaller).               *)
(***************************************************************************)
\* the two 16-bit halves of the uint32_t whose bit pattern the int32 c has
Uint32Halves(c) == <<(c \div 65536) % 65536, c % 65536>>
\* 2^32 - 1 = 65535 * 65536 + 65535
IsUint32Max(c) == Uint32Halves(c) = <<65535, 65535>>

\* the step is the call op(access)
CallStep(op, access) == last'.op = op /\ last'.args = <<access>>

\* C11: release(Read) / release(Write) on a counter that is 0 is carried out like any
\* other: the call returns and the counter becomes 2^32 - 1; while a counter is
\* 2^32 - 1 with no acquire outstanding, isInUse for its access returns true; an
\* acquire of the access whose counter is 2^32 - 1 makes the counter 0.
C11_ReleaseOnZeroWraps ==
    [][\A access \in {"Read", "Write"} :
          /\ (CallStep("release", access) /\ UseCount(access) = 0)
                => (last'.returned /\ IsUint32Max(UseCount(access)'))
          /\ (CallStep("isInUse", access) /\ pc'[Caller] = "idle"
                /\ IsUint32Max(UseCount(access)) /\ held[Caller][access] = 0)
                => ret'[Caller] = [op |-> "isInUse", access |-> access, value |-> TRUE]
          /\ (CallStep("acquire", access) /\ IsUint32Max(UseCount(access)))
                => UseCount(access)' = 0]_vars

\* release(Read) was called with both counters 0 and nothing acquired since, and
\* isInUse(Read) has returned true
C11_Witness ==
    /\ last.op = "isInUse" /\ pc[Caller] = "idle"
    /\ ret[Caller] = [op |-> "isInUse", access |-> "Read", value |-> TRUE]
    /\ IsUint32Max(m_useCountR) /\ m_useCountW = 0
    /\ held[Caller]["Read"] = 0 /\ held[Caller]["Write"] = 0

\* C18: acquire(None) and release(None) change nothing: whatever the two counters
\* hold (values reached by wrapping included), both counters are the same after the
\* call as before it, and so is what isInUse(Read) and isInUse(Write) return.
C18_NoneChangesNothing ==
    [][(CallStep("acquire", "None") \/ CallStep("release", "None")) =>
          /\ last'.returned
          /\ m_useCountR' = m_useCountR
          /\ m_useCountW' = m_useCountW
          /\ InUseNow("Read")' = InUseNow("Read")
          /\ InUseNow("Write")' = InUseNow("Write")]_vars

\* release(None) has returned with the read counter at MaxHold and the write counter
\* at 2^32 - 1
C18_Witness ==
    /\ last.op = "release" /\ last.args = <<"None">>
    /\ m_useCountR = MaxHold
    /\ IsUint32Max(m_useCountW)

(***************************************************************************)
(* Properties of waitIdle (SpecWait).                                      *)
(***************************************************************************)
Spinning == pc[Caller] \in {"spin", "spin_44"}
\* the step ends a probe: the load of line 44, or the load of line 42 of a probe that
\* makes no other
ProbeEnds == pc[Caller] = "spin_44" \/ (pc[Caller] = "spin" /\ local[Caller].access # "Read")

\* what the probe ending with this step finds: isInUse(access) as lines 42-45
\* compute it from the loads the probe makes
ObservedInUse ==
    IF pc[Caller] = "spin_44" THEN local[Caller].result \/ m_useCountR # 0
                              ELSE m_useCountW # 0
\* a step of the waiting call
WaitStep == Spinning /\ (pc'[Caller] # pc[Caller] \/ local'[Caller] # local[Caller])

C22_WaitIdleBlocksUntilIdle ==
    [][(Spinning /\ pc'[Caller] = "idle") =>
          /\ ret'[Caller].op = "waitIdle"
          /\ ret'[Caller].value
          /\ ~ObservedInUse
          /\ ~(pc[Caller] = "spin_44" /\ busy[Caller])]_vars

(***************************************************************************)
(* Properties of the driver calls and of bring-up and teardown.            *)
(***************************************************************************)
\* C13: a submit call with count # 1 is fatal: it makes no backend request (no
\* record, acquire, submit or present), it does not return SCE_OK and the process
\* stops; and there is no partial submission: in every reachable state the backend
\* has received whole record / acquire / submit / present groups only.
C13_NoPartialSubmission ==
    /\ [][(last'.op = "submit" /\ last'.args[1] # 1) =>
             /\ trace' = trace
             /\ ~last'.returned
             /\ phase' = "fatal"]_vars
    /\ [](/\ Len(trace) % 4 = 0
          /\ \A k \in 1 .. (Len(trace) \div 4) :
                OpsOf(SubSeq(trace, 4 * k - 3, 4 * k)) = <<"record", "acquire", "submit", "present">>)

\* C14: whatever its arguments, mapComputeQueue returns one of the fixed error codes
\* or an id in [VQueueIdBegin, MaxComputeQueueCount) whose slot holds a queue on
\* return; a value >= MaxComputeQueueCount is never returned as an id, no pair of
\* a pipeId < MaxPipeId and a queueId < MaxQueueId computing one.
C14_MapReturnsErrorOrMappedId ==
    /\ LastIsMap =>
          /\ last.returned
          /\ \/ last.ret \in ErrorCodes
             \/ /\ VQueueIdBegin <= last.ret
                /\ last.ret < MaxComputeQueueCount
                /\ m_computeQueues[last.ret - VQueueIdBegin] # Null
    /\ \A pipeId \in 0 .. MaxPipeId - 1, queueId \in 0 .. MaxQueueId - 1 :
          VQueueIdBegin + pipeId * MaxPipeId + queueId < MaxComputeQueueCount

\* the call for pair (0, 0) has returned the smallest id while the queue of the pair
\* with the largest id is mapped
C14_Witness ==
    /\ LastIsMap /\ LastPipeId = 0 /\ LastQueueId = 0
    /\ last.ret = VQueueIdBegin
    /\ m_computeQueues[0] # Null
    /\ m_computeQueues[(MaxPipeId - 1) * MaxPipeId + MaxQueueId - 1] # Null

\* C15: a mapped id stays valid until it is unmapped.  A slot that holds the queue
\* created for pair P keeps that queue through every mapComputeQueue call for another
\* pair and every unmapComputeQueue call for another id; it becomes empty only by
\* unmapComputeQueue of its id or by destroyGpuQueues; and a mapComputeQueue call
\* changes no slot but the one of the id it returns.
C15_MappedIdStaysValid ==
    [][\A i \in SlotIndexes :
          /\ m_computeQueues[i] # Null =>
                /\ (last'.op = "mapComputeQueue"
                      /\ <<last'.args[1], last'.args[2]>> # m_computeQueues[i])
                      => m_computeQueues'[i] = m_computeQueues[i]
                /\ (last'.op = "unmapComputeQueue" /\ last'.args[1] # i + VQueueIdBegin)
                      => m_computeQueues'[i] = m_computeQueues[i]
                /\ m_computeQueues'[i] = Null
                      => \/ last'.op = "unmapComputeQueue" /\ last'.args[1] = i + VQueueIdBegin
                         \/ last'.op = "destroyGpuQueues"
          /\ (last'.op = "mapComputeQueue" /\ i # last'.ret - VQueueIdBegin)
                => m_computeQueues'[i] = m_computeQueues[i]]_vars

\* the step is a call of one of the entry points the game uses after bring-up, other
\* than the teardown
GameCallStep ==
    last'.op \in {"submit", "submitDone", "mapComputeQueue", "unmapComputeQueue", "dingDong",
                  "createPresenter"}

\* C16: once the constructor has succeeded the graphics queue exists in every state
\* until destroyGpuQueues (or the destructor) runs: no submit, submitDone,
\* mapComputeQueue, unmapComputeQueue or dingDong call removes it or creates another
\* one; exactly one graphics queue is created in the life of a driver that came up,
\* and it is created by the constructor.
C16_GraphicsQueueExistsUntilDestroyed ==
    /\ [][/\ GameCallStep =>
                /\ m_graphicsQueue' = m_graphicsQueue
                /\ history'.graphicsQueues = history.graphicsQueues
          /\ (m_graphicsQueue /\ ~m_graphicsQueue') => last'.op \in {"destroyGpuQueues", "~SceGnmDriver"}
          /\ (history'.graphicsQueues # history.graphicsQueues) =>
                /\ last'.op = "createGraphicsQueue"
                /\ ~m_graphicsQueue /\ m_graphicsQueue'
                /\ history.graphicsQueues = 0
          /\ (phase # "running" /\ phase' = "running") => (m_graphicsQueue' /\ history'.graphicsQueues = 1)]_vars
    /\ [](m_device /\ phase # "initGnmDriver_50" => history.graphicsQueues = 1)
    /\ [](m_graphicsQueue => history.graphicsQueues = 1)

\* the graphics queue is still there after MaxSubmits submits, a submitDone, a
\* mapComputeQueue whose queue is still mapped, and an unmapComputeQueue that emptied
\* another slot as the latest call
C16_Witness ==
    /\ m_graphicsQueue /\ phase = "running"
    /\ history.graphicsQueues = 1
    /\ Len(trace) = 4 * MaxSubmits
    /\ pumped > 0
    /\ \E i \in SlotIndexes : m_computeQueues[i] # Null
    /\ last.op = "unmapComputeQueue" /\ last.touched /\ last.returned
    /\ last.index \in SlotIndexes

\* C17: every sceGnmSubmitDone call pumps the window event queue exactly once
\* (one glfwPollEvents call, and nothing else pumps it) and returns SCE_OK; it makes
\* no backend request and leaves the graphics queue and every compute-queue slot as
\* they were.
C17_SubmitDonePumpsOnce ==
    [][/\ last'.op = "submitDone" =>
             /\ pumped' = pumped + 1
             /\ last'.returned /\ last'.ret = SCE_OK
             /\ trace' = trace
             /\ m_graphicsQueue' = m_graphicsQueue
             /\ m_computeQueues' = m_computeQueues
             /\ phase' = phase
       /\ pumped' # pumped => last'.op = "submitDone"]_vars

\* submitDone has just returned for the MaxPumps-th time, after a submit, with a
\* compute queue mapped
C17_Witness ==
    /\ last.op = "submitDone" /\ last.ret = SCE_OK
    /\ pumped = MaxPumps
    /\ Len(trace) >= 4
    /\ m_graphicsQueue
    /\ \E i \in SlotIndexes : m_computeQueues[i] # Null

\* no graphics queue and no compute queue exists, and no graphics queue was ever created
NoQueue ==
    /\ ~m_graphicsQueue
    /\ \A i \in SlotIndexes : m_computeQueues[i] = Null
    /\ history.graphicsQueues = 0

\* C19: the constructor succeeds iff enumAdapters(0) yields an adapter and
\* createDevice on it yields a device.  The device is created while no queue exists,
\* and the graphics queue is created on an existing device.  When the adapter or the
\* device is missing the constructor ends in the fatal assertion, and from then on
\* no graphics queue and no compute queue exists in any state.
C19_InitSucceedsIffDeviceCreated ==
    /\ [][/\ last'.op = "createVltDevice" =>
                /\ NoQueue /\ NoQueue'
                /\ m_device' <=> (last'.args[1] /\ last'.args[2])
                /\ (phase' = "fatal") <=> ~(last'.args[1] /\ last'.args[2])
                /\ (phase' = "initGnmDriver_50") <=> (last'.args[1] /\ last'.args[2])
          /\ last'.op = "createGraphicsQueue" => (m_device /\ m_device')
          /\ (phase # "running" /\ phase' = "running") => (m_device' /\ m_graphicsQueue')]_vars
    /\ [](~m_device => (NoQueue /\ phase \in {"constructing", "fatal"}))
    /\ []((phase = "fatal" /\ last.op = "createVltDevice") => (~last.returned /\ NoQueue))

\* the adapter was found and the device could not be created
C19_Witness ==
    /\ last.op = "createVltDevice"
    /\ last.args = <<TRUE, FALSE>>
    /\ phase = "fatal"
    /\ ~m_device /\ NoQueue

\* C20: after destroyGpuQueues (alone or run by the destructor), whatever calls came
\* before it, the graphics queue is released and every compute-queue slot is empty;
\* a destroyGpuQueues call made when that is already so changes nothing of the driver.
C20_DestroyReleasesAllQueues ==
    [][/\ last'.op \in {"destroyGpuQueues", "~SceGnmDriver"} =>
             /\ last'.returned
             /\ ~m_graphicsQueue'
             /\ \A i \in SlotIndexes : m_computeQueues'[i] = Null
       /\ (last'.op = "destroyGpuQueues" /\ ~m_graphicsQueue
             /\ \A i \in SlotIndexes : m_computeQueues[i] = Null) =>
             /\ m_graphicsQueue' = m_graphicsQueue
             /\ m_computeQueues' = m_computeQueues
             /\ m_device' = m_device /\ m_presenter' = m_presenter
             /\ mem' = mem /\ trace' = trace /\ pumped' = pumped /\ phase' = phase]_vars

\* destroyGpuQueues has returned on a driver that had submitted and had mapped a
\* compute queue (the word of its read pointer is 0)
C20_Witness ==
    /\ last.op = "destroyGpuQueues"
    /\ Len(trace) >= 4
    /\ \E a \in WordAddrs : mem[a] = 0
    /\ ~m_graphicsQueue
    /\ \A i \in SlotIndexes : m_computeQueues[i] = Null

\* C21: submit reports an unavailable queue as a returned status: a submit call with
\* count == 1 made while the graphics queue or the presenter does not exist (after
\* destroyGpuQueues, or before createPresenter) makes no backend request and returns
\* one of the error codes, not SCE_OK.
C21_SubmitReportsUnavailableQueue ==
    [][(last'.op = "submit" /\ last'.args[1] = 1 /\ (~m_graphicsQueue \/ ~m_presenter)) =>
          /\ trace' = trace
          /\ last'.returned
          /\ last'.ret \in ErrorCodes
          /\ phase' = "running"]_vars

\* C24: in a completed submit call the list handed to the queue is the one this call
\* recorded from its own dcbGpuAddrs[0] / dcbSizesInBytes[0]; the submission waits on
\* the acquire primitive and wakes the present primitive that this call's
\* acquireNextImage returned; the present that follows is on that same pair; and
\* neither the list nor either primitive is one that an earlier call recorded or
\* acquired.
C24_SubmissionBindsOwnCallData ==
    [][SubmitOneStep =>
          LET n == Len(trace)
              r == trace'[n + 1]
              a == trace'[n + 2]
              s == trace'[n + 3]
              p == trace'[n + 4]
          IN  /\ r.op = "record" /\ a.op = "acquire" /\ s.op = "submit" /\ p.op = "present"
              /\ r.cmdList.buffer = last'.args[2]
              /\ r.cmdList.size = last'.args[3]
              /\ s.cmdList = r.cmdList
              /\ s.wait = a.sync.acquire
              /\ s.wake = a.sync.present
              /\ p.sync = a.sync
              /\ \A i \in 1 .. n :
                    /\ trace[i].op = "record" => trace[i].cmdList # s.cmdList
                    /\ trace[i].op = "acquire" =>
                          /\ trace[i].sync.acquire # s.wait
                          /\ trace[i].sync.present # s.wake
                          /\ trace[i].sync # p.sync]_vars

\* a second call has completed with the buffer and size of the first one
C24_Witness ==
    /\ last.op = "submit" /\ last.returned
    /\ Len(trace) = 8
    /\ trace[5].cmdList.buffer = trace[1].cmdList.buffer
    /\ trace[5].cmdList.size = trace[1].cmdList.size
    /\ trace[7].cmdList = trace[5].cmdList
    /\ trace[7].wait = trace[6].sync.acquire

\* the requests of the k-th completed submit call, given its buffer and size
SubmitGroup(k, dcb, size) ==
    LET cmdList == [serial |-> k, buffer |-> dcb, size |-> size]
        sync    == [acquire |-> k, present |-> k]
    IN  << [op |-> "record", cmdList |-> cmdList],
           [op |-> "acquire", sync |-> sync],
           [op |-> "submit", cmdList |-> cmdList, wait |-> k, wake |-> k],
           [op |-> "present", sync |-> sync] >>

\* C25: the compute-queue slots and the graphics submission stream do not touch each
\* other.  submit and dingDong leave every slot (and the guest read-pointer words)
\* as they were; dingDong changes no driver state and makes no backend request;
\* mapComputeQueue and unmapComputeQueue make no backend request and leave device,
\* graphics queue and presenter alone; and what a submit call requests and returns is
\* determined by its arguments and the number of submits before it, whatever map and
\* unmap calls came in between.
C25_ComputeQueuesIndependentOfSubmission ==
    [][/\ last'.op \in {"submit", "dingDong"} =>
             /\ m_computeQueues' = m_computeQueues
             /\ mem' = mem
       /\ last'.op = "dingDong" =>
             UNCHANGED <<phase, m_device, m_graphicsQueue, m_presenter, m_computeQueues, mem, trace, pumped>>
       /\ last'.op \in {"mapComputeQueue", "unmapComputeQueue"} =>
             UNCHANGED <<m_device, m_graphicsQueue, m_presenter, trace, pumped>>
       /\ SubmitOneStep =>
             /\ trace' = trace \o SubmitGroup(Len(EventsOf(trace, "submit")) + 1, last'.args[2], last'.args[3])
             /\ last'.returned
             /\ last'.ret = SCE_OK]_vars

\* a second submit has completed while a compute queue was mapped
C25_Witness ==
    /\ last.op = "submit" /\ last.returned
    /\ trace = SubmitGroup(1, "bufA", 16) \o SubmitGroup(2, "bufA", 16)
    /\ \E i \in SlotIndexes : m_computeQueues[i] # Null

\* C26: isInUse(Read) needs no lock against concurrent acquire / release: a call
\* during which, from its first load to its last, the read counter or the write
\* counter was not 0 in every state returns true.
C26_IsInUseReadNeverMissesUse ==
    [][\A t \in Threads :
          (IsInUseReturns(t) /\ local[t].access = "Read" /\ busy[t]) => ret'[t].value]_vars

(***************************************************************************)
(* Properties of extension negotiation (SpecExt).                          *)
(***************************************************************************)
Entries == DOMAIN ppExtensions
Supported(i) == supports(ppExtensions[i].name) # 0

\* C23: a call of enableExtensions returns true exactly when every Required entry
\* is supported; when it returns true every supported entry that is not Disabled is
\* enabled (tests true) with the nonzero revision the set holds; an unsupported
\* Optional entry is left as it was, its name is not added to the name set and it
\* does not make the call fail; a Disabled entry is left as it was and its name is
\* not added to the name set, supported or not.  The call changes no mode and not
\* the set asked.
C23_NegotiationByMode ==
    [][enabledAll'.returned =>
          /\ enabledAll'.value <=> \A i \in Entries : ppExtensions[i].mode = "Required" => Supported(i)
          /\ enabledAll'.value =>
                \A i \in Entries : (ppExtensions[i].mode # "Disabled" /\ Supported(i)) =>
                    /\ operator_bool(ppExtensions'[i])
                    /\ ppExtensions'[i].revision = supports(ppExtensions[i].name)
          /\ \A i \in Entries : (ppExtensions[i].mode = "Optional" /\ ~Supported(i)) =>
                /\ ppExtensions'[i] = ppExtensions[i]
                /\ ppExtensions[i].name \in nameSet' <=> ppExtensions[i].name \in nameSet
                /\ (enabledAll'.value <=>
                      \A j \in Entries \ {i} : ppExtensions[j].mode = "Required" => Supported(j))
          /\ \A i \in Entries : ppExtensions[i].mode = "Disabled" =>
                /\ ppExtensions'[i] = ppExtensions[i]
                /\ ppExtensions[i].name \in nameSet' <=> ppExtensions[i].name \in nameSet
          /\ \A i \in Entries : ppExtensions'[i].mode = ppExtensions[i].mode
          /\ \A i \in Entries : operator_bool(ppExtensions'[i]) <=> ppExtensions'[i].revision # 0
          /\ m_names' = m_names]_vars

\* a successful negotiation has just enabled a Required entry at a revision above 1
\* and left a supported Disabled entry disabled and out of the name set
C23_Witness ==
    /\ enabledAll.returned /\ enabledAll.value
    /\ \E i \in Entries : /\ ppExtensions[i].mode = "Required"
                           /\ ppExtensions[i].revision = 3
                           /\ ppExtensions[i].name \in nameSet
    /\ \E i \in Entries : /\ ppExtensions[i].mode = "Disabled" /\ Supported(i)
                           /\ ~operator_bool(ppExtensions[i])
                           /\ ppExtensions[i].name \notin nameSet

====
